---- MODULE Spec2Model ----
(***************************************************************************)
(* Model of the scheduler microservice: SchedulerService (due-time index,  *)
(* per-job timers, periodic sweep, dispatcher with execution guard and     *)
(* backoff, next-run calculator) and the JobsService operations that call  *)
(* into it.  Node.js runs one callback at a time: every action below is    *)
(* the code that runs between two awaits on real I/O (store, executor).    *)
(* Time is in milliseconds since Epoch0 (a local midnight).                *)
(***************************************************************************)
EXTENDS Integers, Sequences, FiniteSets, Bags, TLC

\* ---------------------------------------------------------------- bounds
\* Number of clock ticks (one check interval each) the clock may advance.
MaxTicks == 2
\* Number of JobsService requests (pause, resume) that may arrive in one run.
MaxRequests == 2
\* Number of store calls that may reject in one run.
MaxFaults == 1
\* Number of create requests that may arrive in one run.
MaxCreates == 1

\* ------------------------------------------------------ program constants
checkInterval == 60000
concurrencyLimit == 10

\* ------------------------------------------------------------ null values
\* A null Date column (timestamps are >= 0).
NullTime == 0 - 1
\* A null text column.
NullText == "null"

\* JobStatus enum
ACTIVE == "active"
PAUSED == "paused"
COMPLETED == "completed"
FAILED == "failed"
JobStatus == {ACTIVE, PAUSED, COMPLETED, FAILED}

Min(a, b) == IF a <= b THEN a ELSE b
Max(a, b) == IF a >= b THEN a ELSE b

\* ------------------------------------------------- schedule strings
\* A schedule string is a sequence of one-character strings.
DigitVal ==
  [c \in {"0", "1", "2", "3", "4", "5", "6", "7", "8", "9"} |->
     CASE c = "0" -> 0 [] c = "1" -> 1 [] c = "2" -> 2 [] c = "3" -> 3
       [] c = "4" -> 4 [] c = "5" -> 5 [] c = "6" -> 6 [] c = "7" -> 7
       [] c = "8" -> 8 [] c = "9" -> 9]

IsDigit(c) == c \in DOMAIN DigitVal

\* String.prototype.startsWith
startsWith(s, p) == Len(s) >= Len(p) /\ SubSeq(s, 1, Len(p)) = p

\* Length of the longest run of digits of s that starts at position i (\d+, greedy).
RECURSIVE DigitRun(_, _)
DigitRun(s, i) ==
  IF i <= Len(s) /\ IsDigit(s[i]) THEN 1 + DigitRun(s, i + 1) ELSE 0

\* parseInt(digits, 10) of the n digits of s that start at position i.
RECURSIVE parseInt(_, _, _)
parseInt(s, i, n) ==
  IF n = 0 THEN 0 ELSE parseInt(s, i, n - 1) * 10 + DigitVal[s[i + n - 1]]

\* The optional group (?:(\d+)L)? tried at position i: the captured number
\* ('0' when the group did not take part) and the position after it.
OptGroup(s, i, letter) ==
  LET n == DigitRun(s, i)
  IN IF n >= 1 /\ i + n <= Len(s) /\ s[i + n] = letter
       THEN [val |-> parseInt(s, i, n), next |-> i + n + 1]
       ELSE [val |-> 0, next |-> i]

\* Position of the leftmost "PT" in s at or after i, 0 when there is none.
RECURSIVE FindPT(_, _)
FindPT(s, i) ==
  IF i + 1 > Len(s) THEN 0
  ELSE IF s[i] = "P" /\ s[i + 1] = "T" THEN i ELSE FindPT(s, i + 1)

\* A calculator result: a Date, or a thrown Error with its message.
Date(t) == [ok |-> TRUE, at |-> t, msg |-> NullText]
Throw(m) == [ok |-> FALSE, at |-> NullTime, msg |-> m]

\* The interval calculator with the seconds component left out of the total.
calculateNextRunFromIntervalNoSeconds(interval, from) ==
  LET p == FindPT(interval, 1)
  IN IF p = 0 THEN Throw("Invalid interval format")
     ELSE LET h == OptGroup(interval, p + 2, "H")
              m == OptGroup(interval, h.next, "M")
              totalMs == h.val * 3600000 + m.val * 60000
          IN IF totalMs = 0 THEN Throw("Interval must be greater than 0")
             ELSE Date(from + totalMs)

calculateNextRunFromInterval(interval, from) ==
  LET p == FindPT(interval, 1)
  IN IF p = 0 THEN Throw("Invalid interval format")
     ELSE LET h == OptGroup(interval, p + 2, "H")
              m == OptGroup(interval, h.next, "M")
              s == OptGroup(interval, m.next, "S")
              totalMs == h.val * 3600000 + m.val * 60000 + s.val * 1000
          IN IF totalMs = 0 THEN Throw("Interval must be greater than 0")
             ELSE Date(from + totalMs)

\* ------------------------------------------------- Date (local calendar)
\* Epoch0 = 2023-12-31T00:00:00 local time, a Sunday: 19722 days after
\* 1970-01-01 (a Thursday).  The local zone has no DST change in the window.
EpochDays == 19722
MsPerMinute == 60000
MsPerHour == 3600000
MsPerDay == 24 * 3600000

\* Proleptic Gregorian calendar: [y, m (1..12), d] of the day z days after 1970-01-01.
CivilFromDays(z0) ==
  LET z == z0 + 719468
      era == z \div 146097
      doe == z - era * 146097
      yoe == (doe - (doe \div 1460) + (doe \div 36524) - (doe \div 146096)) \div 365
      doy == doe - (365 * yoe + (yoe \div 4) - (yoe \div 100))
      mp == (5 * doy + 2) \div 153
      d == doy - ((153 * mp + 2) \div 5) + 1
      m == IF mp < 10 THEN mp + 3 ELSE mp - 9
  IN [y |-> yoe + era * 400 + (IF m <= 2 THEN 1 ELSE 0), m |-> m, d |-> d]

\* Date.prototype getters on the Date whose time value is t.
getMinutes(t) == (t \div MsPerMinute) % 60
getHours(t) == (t \div MsPerHour) % 24
getDate(t) == CivilFromDays(EpochDays + (t \div MsPerDay)).d
getMonth(t) == CivilFromDays(EpochDays + (t \div MsPerDay)).m - 1
getDay(t) == (EpochDays + (t \div MsPerDay) + 4) % 7

\* ------------------------------------------------- cron expressions
IsSpace(c) == c \in {" ", "\t"}

\* String.prototype.trim
RECURSIVE TrimLeft(_)
TrimLeft(s) == IF Len(s) > 0 /\ IsSpace(s[1]) THEN TrimLeft(Tail(s)) ELSE s
RECURSIVE TrimRight(_)
TrimRight(s) ==
  IF Len(s) > 0 /\ IsSpace(s[Len(s)]) THEN TrimRight(SubSeq(s, 1, Len(s) - 1)) ELSE s
trim(s) == TrimRight(TrimLeft(s))

\* s.split(sep) for a one-character separator: the pieces between separators.
RECURSIVE splitChar(_, _)
splitChar(s, sep) ==
  IF \A i \in 1..Len(s) : s[i] # sep THEN <<s>>
  ELSE LET i == CHOOSE k \in 1..Len(s) : s[k] = sep /\ \A j \in 1..(k - 1) : s[j] # sep
       IN <<SubSeq(s, 1, i - 1)>> \o splitChar(SubSeq(s, i + 1, Len(s)), sep)

\* s.split(/\s+/): the pieces between maximal runs of whitespace.
RECURSIVE splitSpaces(_)
splitSpaces(s) ==
  IF \A i \in 1..Len(s) : ~IsSpace(s[i]) THEN <<s>>
  ELSE LET i == CHOOSE k \in 1..Len(s) : IsSpace(s[k]) /\ \A j \in 1..(k - 1) : ~IsSpace(s[j])
           rest == TrimLeft(SubSeq(s, i, Len(s)))
       IN <<SubSeq(s, 1, i - 1)>> \o splitSpaces(rest)

AllDigits(s) == Len(s) >= 1 /\ \A i \in 1..Len(s) : IsDigit(s[i])

\* parseInt(v, 10) of an arbitrary string: leading whitespace and one sign are
\* skipped, then the longest digit prefix is read; NaN when it is empty.
jsParseInt(v) ==
  LET t == TrimLeft(v)
      neg == Len(t) > 0 /\ t[1] = "-"
      u == IF Len(t) > 0 /\ t[1] \in {"-", "+"} THEN Tail(t) ELSE t
      n == DigitRun(u, 1)
  IN IF n = 0 THEN [nan |-> TRUE, val |-> 0]
     ELSE [nan |-> FALSE, val |-> IF neg THEN 0 - parseInt(u, 1, n) ELSE parseInt(u, 1, n)]

matchesCronField(field, value) ==
  IF field = <<"*">> THEN TRUE
  ELSE IF Len(field) >= 3 /\ field[1] = "*" /\ field[2] = "/"
          /\ AllDigits(SubSeq(field, 3, Len(field)))
    THEN LET step == parseInt(field, 3, Len(field) - 2)
         IN step # 0 /\ value % step = 0       \* value % 0 is NaN, never === 0
  ELSE IF AllDigits(field) THEN parseInt(field, 1, Len(field)) = value
  ELSE IF /\ DigitRun(field, 1) >= 1
          /\ DigitRun(field, 1) + 1 <= Len(field)
          /\ field[DigitRun(field, 1) + 1] = "-"
          /\ AllDigits(SubSeq(field, DigitRun(field, 1) + 2, Len(field)))
    THEN LET n == DigitRun(field, 1)
             start == parseInt(field, 1, n)
             end == parseInt(field, n + 2, Len(field) - n - 1)
         IN value >= start /\ value <= end
  ELSE IF \E i \in 1..Len(field) : field[i] = ","
    THEN LET parts == splitChar(field, ",")
         IN \E i \in 1..Len(parts) :
              LET v == jsParseInt(trim(parts[i])) IN ~v.nan /\ v.val = value
  ELSE FALSE

maxAttempts == 10080

\* The test of a candidate with the weekday field left out.
cronMatchesNoWeekday(parts, t) ==
  /\ matchesCronField(parts[1], getMinutes(t))
  /\ matchesCronField(parts[2], getHours(t))
  /\ matchesCronField(parts[3], getDate(t))
  /\ matchesCronField(parts[4], getMonth(t) + 1)

\* The test of one candidate Date against the five fields.
cronMatches(parts, t) ==
  /\ matchesCronField(parts[1], getMinutes(t))
  /\ matchesCronField(parts[2], getHours(t))
  /\ matchesCronField(parts[3], getDate(t))
  /\ matchesCronField(parts[4], getMonth(t) + 1)
  /\ matchesCronField(parts[5], getDay(t))

\* The while loop giving up one candidate early.
cronLoopOneShort(parts, first) ==
  IF \A k \in 0..(maxAttempts - 2) : ~cronMatches(parts, first + k * MsPerMinute)
    THEN maxAttempts
    ELSE CHOOSE k \in 0..(maxAttempts - 2) :
           /\ cronMatches(parts, first + k * MsPerMinute)
           /\ \A j \in 0..(k - 1) : ~cronMatches(parts, first + j * MsPerMinute)

\* The value of "attempts" when the while loop returns a candidate; maxAttempts when it
\* runs out.  The candidate tested at attempts = k is first + k minutes.
cronLoop(parts, first) ==
  IF \A k \in 0..(maxAttempts - 1) : ~cronMatches(parts, first + k * MsPerMinute)
    THEN maxAttempts
    ELSE CHOOSE k \in 0..(maxAttempts - 1) :
           /\ cronMatches(parts, first + k * MsPerMinute)
           /\ \A j \in 0..(k - 1) : ~cronMatches(parts, first + j * MsPerMinute)

cronResult(first, attempts0) ==
  IF attempts0 >= maxAttempts THEN Throw("Could not find next run time for cron")
  ELSE Date(first + attempts0 * MsPerMinute)

cronSearch(parts, first) ==
  IF Len(parts) # 5 THEN Throw("Invalid cron expression")
  ELSE cronResult(first, cronLoop(parts, first))

calculateNextRunFromCron(cronExpression, from) ==
  cronSearch(splitSpaces(trim(cronExpression)), (from - (from % MsPerMinute)) + MsPerMinute)

\* calculateNextRun(schedule) with t the value of its "new Date()".
calculateNextRun(schedule, t) ==
  IF startsWith(schedule, <<"P", "T">>)
    THEN calculateNextRunFromInterval(schedule, t)
    ELSE calculateNextRunFromCron(schedule, t)


\* ------------------------------------------------------------ state
VARIABLES
  now,            \* the time Date.now() returns
  store,          \* the jobs table: id -> row (the rows that exist)
  scheduledJobs,  \* Map id -> ScheduledJob, as the sequence of its entries in insertion order
  timers,         \* the armed setTimeout timers that have neither fired nor been cleared
  executingJobs,  \* the keys of the executingJobs Map (its values are never read)
  attempts,       \* executeJob invocations suspended at an await (a bag)
  passes,         \* checkAndExecuteJobs invocations suspended at an await
  calls,          \* JobsService requests suspended at an await
  boot,           \* onModuleInit / loadActiveJobs: its position and local activeJobs
  sweepDue,       \* the setInterval timer has elapsed and its callback has not run yet
  faults,         \* the number of store calls that have rejected so far
  requests,       \* the number of JobsService requests that have arrived so far
  out,            \* what the last step emitted: log lines and calls of the executor
  ranOcc          \* history: the <<id, due time>> occurrences the executor was invoked for

vars == <<now, store, scheduledJobs, timers, executingJobs, attempts, passes, calls,
          boot, sweepDue, faults, requests, out, ranOcc>>

\* The job ids that may exist.
JobIds == 1..(concurrencyLimit + 1)

\* findOne / getOne found no row.
NoJob == [status |-> "none", schedule |-> <<>>, nextRunAt |-> NullTime,
          lastRunAt |-> NullTime, runCount |-> 0, failureCount |-> 0,
          lastError |-> NullText]

\* repository.findOne / getOne: the row, or null
Row(st, id) == IF id \in DOMAIN st THEN st[id] ELSE NoJob
\* repository.save(entity): insert or update the whole row
Upsert(st, id, job) == [i \in DOMAIN st \cup {id} |-> IF i = id THEN job ELSE st[i]]

NoPass == 0 - 1

\* The in-memory state the scheduler's methods work on, and the lines they emit.
Mem == [sj |-> scheduledJobs, tm |-> timers, ex |-> executingJobs, at |-> attempts,
        ps |-> passes, log |-> <<>>]

Emit(M, e) == [M EXCEPT !.log = Append(@, e)]

HasEntry(sj, id) == \E i \in 1..Len(sj) : sj[i].id = id
EntryIndex(sj, id) == CHOOSE i \in 1..Len(sj) : sj[i].id = id
EntryOf(sj, id) == sj[EntryIndex(sj, id)]
RemoveAt(sq, i) == SubSeq(sq, 1, i - 1) \o SubSeq(sq, i + 1, Len(sq))

\* Map.prototype.delete(id): the entry goes; an iterator that has passed it moves with
\* the entries behind it (Map iterators are live).
MapDeleteAt(M, i) ==
  [M EXCEPT !.sj = RemoveAt(@, i),
            !.ps = {IF p.pos >= i THEN [p EXCEPT !.pos = @ - 1] ELSE p : p \in @}]

MapDelete(M, id) == IF HasEntry(M.sj, id) THEN MapDeleteAt(M, EntryIndex(M.sj, id)) ELSE M

\* clearTimeout(timeoutId)
clearTimeout(tm, tid) == {t \in tm : t.tid # tid}

\* unscheduleJob without its clearTimeout (line 161 left out).
unscheduleKeepTimer(M, id, scheduledJob) ==
  Emit(MapDelete(M, id), [kind |-> "unscheduled", id |-> id, at |-> scheduledJob.nextRunAt])

\* unscheduleJob clearing every entry and timer instead of the identity's own.
unscheduleEveryEntry(M, id, scheduledJob) ==
  Emit([M EXCEPT !.sj = <<>>, !.tm = {}, !.ps = {[p EXCEPT !.pos = 0] : p \in @}],
       [kind |-> "unscheduled", id |-> id, at |-> scheduledJob.nextRunAt])

unscheduleEntry(M, id, scheduledJob) ==
  Emit(MapDelete([M EXCEPT !.tm = clearTimeout(@, scheduledJob.timeoutId)], id),
       [kind |-> "unscheduled", id |-> id, at |-> scheduledJob.nextRunAt])

unscheduleJob(M, id) ==
  IF HasEntry(M.sj, id) THEN unscheduleEntry(M, id, EntryOf(M.sj, id)) ELSE M

\* A timer handle not in use: no armed timer and no index entry refers to it.
FreshTimerId(M) ==
  CHOOSE n \in 1..(Cardinality(M.tm) + Len(M.sj) + 1) :
    /\ \A t \in M.tm : t.tid # n
    /\ \A i \in 1..Len(M.sj) : M.sj[i].timeoutId # n
    /\ \A k \in 1..(n - 1) : (\E t \in M.tm : t.tid = k)
                              \/ (\E i \in 1..Len(M.sj) : M.sj[i].timeoutId = k)

\* setTimeout(callback, delay) at time t and scheduledJobs.set(job.id, {...}).
armTimer(M, id, nextRunAt, t, delay, tid) ==
  Emit([M EXCEPT !.tm = @ \cup {[tid |-> tid, id |-> id, fireAt |-> t + delay,
                                  due |-> nextRunAt]},
                 !.sj = Append(@, [id |-> id, nextRunAt |-> nextRunAt, timeoutId |-> tid])],
       [kind |-> "scheduled", id |-> id, at |-> nextRunAt])

\* scheduleJob from "const nextRunAt = ..." on: nextRunAt is the Date or the thrown Error.
scheduleAt(M, id, nextRunAt, t) ==
  IF ~nextRunAt.ok THEN [m |-> M, err |-> nextRunAt.msg]
  ELSE [m |-> armTimer(M, id, nextRunAt.at, t, Max(0, nextRunAt.at - t), FreshTimerId(M)),
        err |-> NullText]

\* scheduleJob without "unschedule if already scheduled" (line 135 left out).
scheduleJobKeepOld(M, id, job, t) ==
  IF job.status # ACTIVE THEN [m |-> M, err |-> NullText]
  ELSE scheduleAt(M, id,
                  IF job.nextRunAt # NullTime THEN Date(job.nextRunAt)
                  ELSE calculateNextRun(job.schedule, t),
                  t)

\* scheduleJob without its status test (lines 130-132 left out).
scheduleJobAnyStatus(M, id, job, t) ==
  scheduleAt(unscheduleJob(M, id), id,
             IF job.nextRunAt # NullTime THEN Date(job.nextRunAt)
             ELSE calculateNextRun(job.schedule, t),
             t)

\* scheduleJob computing the due time anew also when the job has one.
scheduleJobRecompute(M, id, job, t) ==
  IF job.status # ACTIVE THEN [m |-> M, err |-> NullText]
  ELSE scheduleAt(unscheduleJob(M, id), id, calculateNextRun(job.schedule, t), t)

\* scheduleJob(job) called at time t: the memory after it, and the message of the
\* Error it throws (NullText when it returns).
scheduleJob(M, id, job, t) ==
  IF job.status # ACTIVE THEN [m |-> M, err |-> NullText]
  ELSE scheduleAt(unscheduleJob(M, id), id,
                  IF job.nextRunAt # NullTime THEN Date(job.nextRunAt)
                  ELSE calculateNextRun(job.schedule, t),
                  t)

\* ------------------------------------------------------------ dispatcher
\* The executor's two outcomes: execute(job) resolves, or rejects with an Error.
ExecutorOutcomes == {"resolved", "rejected"}

One(x) == SetToBag({x})
Replace(M, a, b) == [M EXCEPT !.at = (@ (-) One(a)) (+) One(b)]
InFlight(at, id) == {a \in BagToSet(at) : a.id = id}
OfPass(at, pid) == {a \in BagToSet(at) : a.tag = pid}

\* executeJob without its duplicate check (lines 169-172 left out).
executeJobUnguarded(M, id, due, tag) ==
  [M EXCEPT !.ex = @ \cup {id},
            !.at = @ (+) One([id |-> id, pc |-> "findOne", job |-> NoJob,
                              loaded |-> NoJob, err |-> NullText, tag |-> tag,
                              due |-> due])]

\* executeJob(job) up to its first await.  due is the due time of the index entry that
\* triggered the call, tag the sweep pass that awaits the call (NoPass for a timer).
executeJobStart(M, id, due, tag) ==
  IF id \in M.ex
    THEN Emit(M, [kind |-> "duplicate", id |-> id, at |-> due])
    ELSE [M EXCEPT !.ex = @ \cup {id},
                   !.at = @ (+) One([id |-> id, pc |-> "findOne", job |-> NoJob,
                                     loaded |-> NoJob, err |-> NullText, tag |-> tag,
                                     due |-> due])]

\* Promise.all(batch.map(job => this.executeJob(job))): the calls start one after the other.
RECURSIVE StartBatch(_, _, _)
StartBatch(M, batch, pid) ==
  IF batch = <<>> THEN M
  ELSE StartBatch(executeJobStart(M, Head(batch).id, Head(batch).due, pid), Tail(batch), pid)

PassOf(M, pid) == CHOOSE p \in M.ps : p.now = pid
SetPass(M, p) == [M EXCEPT !.ps = {q \in @ : q.now # p.now} \cup {p}]
DropPass(M, pid) == [M EXCEPT !.ps = {q \in @ : q.now # pid}]

\* The pass after a batch has been started: i += concurrencyLimit happens when the
\* await returns, which nothing can observe earlier.
AdvancePass(M, pid) ==
  SetPass(M, [PassOf(M, pid) EXCEPT !.i = @ + concurrencyLimit, !.pc = "batch"])

\* jobsToExecute.slice(i, i + concurrencyLimit)
BatchOf(p) == SubSeq(p.jobs, p.i + 1, Min(p.i + concurrencyLimit, Len(p.jobs)))

\* The batch loop of checkAndExecuteJobs from batch start i: it suspends at the first
\* batch that has a call in flight and returns when the batches are used up.
RECURSIVE RunBatches(_, _)
RECURSIVE AwaitBatch(_, _)
RunBatches(M, pid) ==
  IF PassOf(M, pid).i >= Len(PassOf(M, pid).jobs) THEN DropPass(M, pid)
  ELSE AwaitBatch(StartBatch(M, BatchOf(PassOf(M, pid)), pid), pid)

\* await Promise.all(...): with no call left in flight the loop goes on at once.
AwaitBatch(M, pid) ==
  IF OfPass(M.at, pid) = {} THEN RunBatches(AdvancePass(M, pid), pid)
  ELSE AdvancePass(M, pid)

\* The for-loop over scheduledJobs.entries() of checkAndExecuteJobs from the iterator's
\* position: it suspends at the store query for the first due entry, or goes on to the
\* batches when the entries are used up.
RECURSIVE Scan(_, _)
Scan(M, pid) ==
  LET p == PassOf(M, pid)
  IN IF p.pos >= Len(M.sj) THEN RunBatches(M, pid)
     ELSE LET scheduledJob == M.sj[p.pos + 1]
          IN IF scheduledJob.id \notin M.ex /\ scheduledJob.nextRunAt <= p.now
               THEN SetPass(M, [p EXCEPT !.pos = @ + 1, !.pc = "getOne",
                                         !.cur = scheduledJob.id,
                                         !.curDue = scheduledJob.nextRunAt])
               ELSE Scan(SetPass(M, [p EXCEPT !.pos = @ + 1]), pid)

\* The end of an executeJob call: the finally block, then whoever awaits the call.  A
\* rejected call rejects the Promise.all of its pass at once; the last call of a batch
\* to settle lets the pass go on to its next batch.
Settle(M, a, rejected) ==
  IF ~(\E p \in M.ps : p.now = a.tag /\ p.pc = "batch") THEN M
  ELSE IF rejected THEN DropPass(M, a.tag)
  ELSE IF OfPass(M.at, a.tag) = {} THEN RunBatches(M, a.tag)
  ELSE M

\* executeJob without its finally block (line 232 left out).
FinallyKeepGuard(M, a, rejected) ==
  IF rejected
    THEN Emit([M EXCEPT !.at = @ (-) One(a)],
              [kind |-> "rejected", id |-> a.id, at |-> a.due])
    ELSE [M EXCEPT !.at = @ (-) One(a)]

Finally(M, a, rejected) ==
  IF rejected
    THEN Emit([M EXCEPT !.at = @ (-) One(a), !.ex = @ \ {a.id}],
              [kind |-> "rejected", id |-> a.id, at |-> a.due])
    ELSE [M EXCEPT !.at = @ (-) One(a), !.ex = @ \ {a.id}]

AttemptEnd(M, a, rejected) == Settle(Finally(M, a, rejected), a, rejected)

\* The backoff with the exponent one too small.
backoffDelayFromOne(failureCount) ==
  IF failureCount <= 15 THEN Min((2 ^ (failureCount - 1)) * 60000, 3600000) ELSE 3600000

\* Math.min(Math.pow(2, failureCount) * 60000, 3600000) in IEEE doubles: from
\* failureCount = 6 on the product is above 3600000 (for huge counts it is Infinity),
\* so the minimum is 3600000; the product is computed here only while it is small.
backoffDelay(failureCount) ==
  IF failureCount <= 15 THEN Min((2 ^ failureCount) * 60000, 3600000) ELSE 3600000

\* ------------------------------------------------------------ actions
\* The clock starts at 2023-12-31T23:58:00 and stops after MaxTicks check intervals.
StartNow == MsPerDay - 2 * checkInterval
MaxNow == StartNow + MaxTicks * checkInterval

\* The outcomes of a store call: it resolves (TRUE) or rejects (FALSE).
StoreOutcomes == {TRUE, FALSE}

\* A store call settles with outcome ok.
StoreCall(ok) ==
  /\ ok \/ faults < MaxFaults
  /\ faults' = IF ok THEN faults ELSE faults + 1

Commit(M) ==
  /\ scheduledJobs' = M.sj
  /\ timers' = M.tm
  /\ executingJobs' = M.ex
  /\ attempts' = M.at
  /\ passes' = M.ps
  /\ out' = M.log

\* Time passes by one check interval; the setInterval timer elapses once it is armed.
Tick ==
  /\ now < MaxNow
  /\ now' = now + checkInterval
  /\ sweepDue' = (sweepDue \/ boot.pc = "running")
  /\ out' = <<>>
  /\ UNCHANGED <<store, scheduledJobs, timers, executingJobs, attempts, passes, calls,
                 boot, faults, requests, ranOcc>>

\* The setTimeout callback armed by scheduleJob: scheduledJobs.delete(job.id), then
\* executeJob(job) up to its first await.
TimerFire(t) ==
  /\ t \in timers
  /\ now >= t.fireAt
  /\ Commit(executeJobStart(MapDelete([Mem EXCEPT !.tm = @ \ {t}], t.id),
                            t.id, t.due, NoPass))
  /\ UNCHANGED <<now, store, calls, boot, sweepDue, faults, requests, ranOcc>>

\* ---- executeJob, one action for each await it resumes from
Ev(kind, a, at) == [kind |-> kind, id |-> a.id, at |-> at]

\* catch (error): the error is logged and the job is read again.
EnterCatch(M, a, msg) ==
  Emit(Replace(M, a, [a EXCEPT !.pc = "catchFindOne", !.err = msg]), Ev("error", a, a.due))

\* executeJob with "if (!freshJob)" as its only test (the status test of line 182 left out).
AfterFindOneAnyStatus(M, a, ok, freshJob, t) ==
  IF ~ok THEN EnterCatch(M, a, "store error")
  ELSE IF freshJob = NoJob
    THEN AttemptEnd(Emit(M, Ev("inactive", a, a.due)), a, FALSE)
  ELSE Emit(Replace(M, a, [a EXCEPT !.pc = "execute", !.loaded = freshJob,
                                    !.job = [freshJob EXCEPT !.lastRunAt = t,
                                                             !.runCount = @ + 1]]),
            Ev("invoke", a, a.due))

\* From the answer of findOne to the call of the executor.
AfterFindOne(M, a, ok, freshJob, t) ==
  IF ~ok THEN EnterCatch(M, a, "store error")
  ELSE IF freshJob.status # ACTIVE
    THEN AttemptEnd(Emit(M, Ev("inactive", a, a.due)), a, FALSE)
  ELSE Emit(Replace(M, a, [a EXCEPT !.pc = "execute", !.loaded = freshJob,
                                    !.job = [freshJob EXCEPT !.lastRunAt = t,
                                                             !.runCount = @ + 1]]),
            Ev("invoke", a, a.due))

FindOneDone(a, ok) ==
  /\ a.pc = "findOne"
  /\ StoreCall(ok)
  /\ Commit(AfterFindOne(Mem, a, ok, Row(store, a.id), now))
  /\ ranOcc' = IF ok /\ Row(store, a.id).status = ACTIVE
                 THEN ranOcc \cup {<<a.id, a.due>>} ELSE ranOcc
  /\ UNCHANGED <<now, store, calls, boot, sweepDue, requests>>

\* The success path without "freshJob.lastError = null" (line 198 left out).
AfterExecuteKeepError(M, a, outcome, nextRunAt) ==
  IF outcome = "rejected" THEN EnterCatch(M, a, "executor error")
  ELSE IF ~nextRunAt.ok THEN EnterCatch(M, a, nextRunAt.msg)
  ELSE Replace(M, a, [a EXCEPT !.pc = "save", !.job = [@ EXCEPT !.nextRunAt = nextRunAt.at]])

\* From the executor's answer to the save of the job's state.
AfterExecute(M, a, outcome, nextRunAt) ==
  IF outcome = "rejected" THEN EnterCatch(M, a, "executor error")
  ELSE IF ~nextRunAt.ok THEN EnterCatch(M, a, nextRunAt.msg)
  ELSE Replace(M, a, [a EXCEPT !.pc = "save",
                               !.job = [@ EXCEPT !.nextRunAt = nextRunAt.at,
                                                 !.lastError = NullText]])

ExecuteDone(a, outcome) ==
  /\ a.pc = "execute"
  /\ Commit(AfterExecute(Mem, a, outcome, calculateNextRun(a.job.schedule, now)))
  /\ UNCHANGED <<now, store, calls, boot, sweepDue, faults, requests, ranOcc>>

\* From the answer of save to the end of the try block; r is what scheduleJob did.
AfterSave(M, a, ok, r) ==
  IF ~ok THEN EnterCatch(M, a, "store error")
  ELSE IF r.err # NullText THEN EnterCatch(r.m, a, r.err)
  ELSE AttemptEnd(Emit(r.m, Ev("success", a, a.job.nextRunAt)), a, FALSE)

SaveDone(a, ok) ==
  /\ a.pc = "save"
  /\ StoreCall(ok)
  /\ store' = IF ok THEN Upsert(store, a.id, a.job) ELSE store
  /\ Commit(AfterSave(Mem, a, ok, scheduleJob(Mem, a.id, a.job, now)))
  /\ UNCHANGED <<now, calls, boot, sweepDue, requests, ranOcc>>

\* The failure handling marking the job Failed.
AfterCatchFindOneMarkFailed(M, a, ok, freshJob) ==
  IF ~ok THEN AttemptEnd(M, a, TRUE)
  ELSE IF freshJob = NoJob THEN AttemptEnd(M, a, FALSE)
  ELSE Replace(M, a, [a EXCEPT !.pc = "catchSave1", !.loaded = freshJob,
                               !.job = [freshJob EXCEPT !.failureCount = @ + 1,
                                                        !.lastError = a.err,
                                                        !.status = FAILED]])

\* catch: from the answer of the second findOne to the first save.
AfterCatchFindOne(M, a, ok, freshJob) ==
  IF ~ok THEN AttemptEnd(M, a, TRUE)
  ELSE IF freshJob = NoJob THEN AttemptEnd(M, a, FALSE)
  ELSE Replace(M, a, [a EXCEPT !.pc = "catchSave1", !.loaded = freshJob,
                               !.job = [freshJob EXCEPT !.failureCount = @ + 1,
                                                        !.lastError = a.err]])

CatchFindOneDone(a, ok) ==
  /\ a.pc = "catchFindOne"
  /\ StoreCall(ok)
  /\ Commit(AfterCatchFindOne(Mem, a, ok, Row(store, a.id)))
  /\ UNCHANGED <<now, store, calls, boot, sweepDue, requests, ranOcc>>

\* catch: from the answer of the first save to the second save.
AfterCatchSave1(M, a, ok, t) ==
  IF ~ok THEN AttemptEnd(M, a, TRUE)
  ELSE Replace(M, a, [a EXCEPT !.pc = "catchSave2",
                               !.job = [@ EXCEPT !.nextRunAt =
                                          t + backoffDelay(a.job.failureCount)]])

CatchSave1Done(a, ok) ==
  /\ a.pc = "catchSave1"
  /\ StoreCall(ok)
  /\ store' = IF ok THEN Upsert(store, a.id, a.job) ELSE store
  /\ Commit(AfterCatchSave1(Mem, a, ok, now))
  /\ UNCHANGED <<now, calls, boot, sweepDue, requests, ranOcc>>

\* The failure handling ending without scheduling the job again.
AfterCatchSave2NoReschedule(M, a, ok, r) ==
  IF ~ok THEN AttemptEnd(M, a, TRUE)
  ELSE AttemptEnd(Emit(M, Ev("failure", a, a.job.nextRunAt)), a, FALSE)

\* catch: from the answer of the second save to the end of the call.
AfterCatchSave2(M, a, ok, r) ==
  IF ~ok THEN AttemptEnd(M, a, TRUE)
  ELSE AttemptEnd(Emit(r.m, Ev("failure", a, a.job.nextRunAt)), a, r.err # NullText)

CatchSave2Done(a, ok) ==
  /\ a.pc = "catchSave2"
  /\ StoreCall(ok)
  /\ store' = IF ok THEN Upsert(store, a.id, a.job) ELSE store
  /\ Commit(AfterCatchSave2(Mem, a, ok, scheduleJob(Mem, a.id, a.job, now)))
  /\ UNCHANGED <<now, calls, boot, sweepDue, requests, ranOcc>>

\* ---- checkAndExecuteJobs
NewPass(t) == [now |-> t, pos |-> 0, pc |-> "scan", cur |-> 0, curDue |-> NullTime,
               jobs |-> <<>>, i |-> 0]

\* The setInterval callback: a pass up to its first await.
SweepStart ==
  /\ sweepDue
  /\ sweepDue' = FALSE
  /\ Commit(Scan(SetPass(Mem, NewPass(now)), now))
  /\ UNCHANGED <<now, store, calls, boot, faults, requests, ranOcc>>

\* jobsToExecute.push(job)
PushJob(M, pid, id, due) ==
  SetPass(M, [PassOf(M, pid) EXCEPT !.jobs = Append(@, [id |-> id, due |-> due])])

\* From the answer of getOne to the pass's next await.
AfterGetOne(M, p, ok, job) ==
  IF ok /\ job.status = ACTIVE
    THEN Scan(PushJob(unscheduleJob(M, p.cur), p.now, p.cur, p.curDue), p.now)
    ELSE Scan(M, p.now)

SweepGetOneDone(p, ok) ==
  /\ p.pc = "getOne"
  /\ StoreCall(ok)
  /\ Commit(AfterGetOne(Mem, p, ok, Row(store, p.cur)))
  /\ UNCHANGED <<now, store, calls, boot, sweepDue, requests, ranOcc>>

\* ---- JobsService.pause, JobsService.resume and JobsService.remove
Ops == {"pause", "resume"}

\* A request arrives; the server listens once onModuleInit has returned.
CallStart(op, id) ==
  /\ boot.pc = "running"
  /\ requests < MaxRequests
  /\ id \in DOMAIN store
  /\ requests' = requests + 1
  /\ calls' = calls \cup {[op |-> op, id |-> id, pc |-> "findOne", job |-> NoJob]}
  /\ out' = <<>>
  /\ UNCHANGED <<now, store, scheduledJobs, timers, executingJobs, attempts, passes,
                 boot, sweepDue, faults, ranOcc>>

\* The request after findOne: the set of its calls that go on (to the save), if any.
CallAfterFindOne(c, ok, job, nextRunAt) ==
  IF ~ok \/ job = NoJob THEN {}
  ELSE IF c.op = "pause" THEN {[c EXCEPT !.pc = "save", !.job = [job EXCEPT !.status = PAUSED]]}
  ELSE IF c.op = "remove" THEN {[c EXCEPT !.pc = "remove", !.job = job]}
  ELSE IF job.status = PAUSED /\ nextRunAt.ok
    THEN {[c EXCEPT !.pc = "save",
                    !.job = [job EXCEPT !.status = ACTIVE, !.nextRunAt = nextRunAt.at]]}
  ELSE {}

CallFindOneDone(c, ok) ==
  /\ c.pc = "findOne"
  /\ StoreCall(ok)
  /\ calls' = (calls \ {c})
                \cup CallAfterFindOne(c, ok, Row(store, c.id),
                                      calculateNextRun(Row(store, c.id).schedule, now))
  /\ Commit(IF ok /\ c.op \in {"pause", "remove"} /\ c.id \in DOMAIN store
              THEN unscheduleJob(Mem, c.id) ELSE Mem)
  /\ UNCHANGED <<now, store, boot, sweepDue, requests, ranOcc>>

CallSaveDone(c, ok) ==
  /\ c.pc = "save"
  /\ StoreCall(ok)
  /\ calls' = calls \ {c}
  /\ store' = IF ok THEN Upsert(store, c.id, c.job) ELSE store
  /\ Commit(IF ok /\ c.op = "resume" THEN scheduleJob(Mem, c.id, c.job, now).m ELSE Mem)
  /\ UNCHANGED <<now, boot, sweepDue, requests, ranOcc>>

\* repository.remove(job): the row goes, if it is still there.
Delete(st, id) == [i \in DOMAIN st \ {id} |-> st[i]]

CallRemoveDone(c, ok) ==
  /\ c.pc = "remove"
  /\ StoreCall(ok)
  /\ calls' = calls \ {c}
  /\ store' = IF ok THEN Delete(store, c.id) ELSE store
  /\ Commit(Mem)
  /\ UNCHANGED <<now, boot, sweepDue, requests, ranOcc>>

\* ---- onModuleInit: loadActiveJobs, then startScheduler
RECURSIVE Ascending(_)
Ascending(S) ==
  IF S = {} THEN <<>>
  ELSE <<CHOOSE x \in S : \A y \in S : x <= y>>
         \o Ascending(S \ {CHOOSE x \in S : \A y \in S : x <= y})

\* Schedules the first of the loaded jobs only.
ScheduleFirst(M, ids, jobs, t) ==
  IF ids = <<>> THEN M ELSE scheduleJob(M, Head(ids), jobs[Head(ids)], t).m

\* for (const job of activeJobs) await this.scheduleJob(job): up to the first throw.
RECURSIVE ScheduleAll(_, _, _, _)
RECURSIVE ScheduleRest(_, _, _, _)
ScheduleAll(M, ids, jobs, t) ==
  IF ids = <<>> THEN M
  ELSE ScheduleRest(scheduleJob(M, Head(ids), jobs[Head(ids)], t), Tail(ids), jobs, t)

ScheduleRest(r, ids, jobs, t) ==
  IF r.err # NullText THEN r.m ELSE ScheduleAll(r.m, ids, jobs, t)

\* loadActiveJobs has returned and startScheduler has armed the interval timer.
Running == [pc |-> "running", jobs |-> <<>>, upd |-> {}]

\* The rows getMany answers with: the Active ones.
ActiveJobs(st) == [id \in {i \in DOMAIN st : st[i].status = ACTIVE} |-> st[id]]

\* for (const job of jobsToUpdate) job.nextRunAt = this.calculateNextRun(job.schedule)
AssignNextRun(jobs, t) ==
  [id \in DOMAIN jobs |->
     IF jobs[id].nextRunAt # NullTime THEN jobs[id]
     ELSE [jobs[id] EXCEPT !.nextRunAt = calculateNextRun(jobs[id].schedule, t).at]]

AssignThrows(jobs, t) ==
  \E id \in DOMAIN jobs :
    jobs[id].nextRunAt = NullTime /\ ~calculateNextRun(jobs[id].schedule, t).ok

jobsToUpdate(jobs) == {id \in DOMAIN jobs : jobs[id].nextRunAt = NullTime}

LoadGetManyDone(ok) ==
  /\ boot.pc = "getMany"
  /\ StoreCall(ok)
  /\ IF ~ok \/ AssignThrows(ActiveJobs(store), now)
       THEN boot' = Running /\ Commit(Mem)
       ELSE IF jobsToUpdate(ActiveJobs(store)) # {}
         THEN /\ boot' = [pc |-> "save", jobs |-> AssignNextRun(ActiveJobs(store), now),
                          upd |-> jobsToUpdate(ActiveJobs(store))]
              /\ Commit(Mem)
         ELSE /\ boot' = Running
              /\ Commit(ScheduleAll(Mem, Ascending(DOMAIN ActiveJobs(store)),
                                    ActiveJobs(store), now))
  /\ UNCHANGED <<now, store, calls, sweepDue, requests, ranOcc>>

\* loadActiveJobs going on to schedule the jobs when its batch save has failed.
LoadSaveDoneScheduleAnyway(ok) ==
  /\ boot.pc = "save"
  /\ StoreCall(ok)
  /\ boot' = Running
  /\ store' = IF ok THEN [id \in DOMAIN store |->
                            IF id \in boot.upd THEN boot.jobs[id] ELSE store[id]]
              ELSE store
  /\ Commit(ScheduleAll(Mem, Ascending(DOMAIN boot.jobs), boot.jobs, now))
  /\ UNCHANGED <<now, calls, sweepDue, requests, ranOcc>>

LoadSaveDone(ok) ==
  /\ boot.pc = "save"
  /\ StoreCall(ok)
  /\ boot' = Running
  /\ store' = IF ok THEN [id \in DOMAIN store |->
                            IF id \in boot.upd THEN boot.jobs[id] ELSE store[id]]
              ELSE store
  /\ Commit(IF ok THEN ScheduleAll(Mem, Ascending(DOMAIN boot.jobs), boot.jobs, now)
            ELSE Mem)
  /\ UNCHANGED <<now, calls, sweepDue, requests, ranOcc>>

\* ---- onModuleDestroy
\* scheduledJobs.forEach((scheduledJob) => clearTimeout(scheduledJob.timeoutId))
RECURSIVE ClearAll(_, _)
ClearAll(tm, sj) ==
  IF sj = <<>> THEN tm ELSE ClearAll(clearTimeout(tm, Head(sj).timeoutId), Tail(sj))

Destroyed == [pc |-> "destroyed", jobs |-> <<>>, upd |-> {}]

\* Every entry's timer is cleared, the map is emptied (an iterator over it has nothing
\* left to visit) and the interval timer is cleared, so that a sweep that was due does
\* not start. Attempts and passes that wait for an answer are left as they are.
onModuleDestroy ==
  /\ boot.pc = "running"
  /\ boot' = Destroyed
  /\ sweepDue' = FALSE
  /\ Commit([Mem EXCEPT !.tm = ClearAll(@, scheduledJobs), !.sj = <<>>,
                        !.ps = {[p EXCEPT !.pos = 0] : p \in @}])
  /\ UNCHANGED <<now, store, calls, faults, requests, ranOcc>>

\* ------------------------------------------------------------ specification
PT1M == <<"P", "T", "1", "M">>

Row0(schedule, status, nextRunAt, lastRunAt, runCount, failureCount, lastError) ==
  [status |-> status, schedule |-> schedule, nextRunAt |-> nextRunAt,
   lastRunAt |-> lastRunAt, runCount |-> runCount, failureCount |-> failureCount,
   lastError |-> lastError]

\* A job that last ran 8 minutes before the start, then failed failureCount times, and
\* whose due time has passed while the process was down.
Overdue(status, failureCount) ==
  Row0(PT1M, status, StartNow - checkInterval, StartNow - 8 * checkInterval, 3,
       failureCount, IF failureCount = 0 THEN NullText ELSE "executor error")

\* The jobs table the service starts on: a job that was created and never given a due
\* time, a paused job, and an overdue job; the last two have failed twice in a row.
InitStores ==
  { (1 :> Row0(PT1M, ACTIVE, NullTime, NullTime, 0, 0, NullText)),
    (1 :> Overdue(PAUSED, 2)),
    (1 :> Overdue(ACTIVE, 2)) }

InitWith(S) ==
  /\ now = StartNow
  /\ store \in S
  /\ scheduledJobs = <<>>
  /\ timers = {}
  /\ executingJobs = {}
  /\ attempts = EmptyBag
  /\ passes = {}
  /\ calls = {}
  /\ boot = [pc |-> "getMany", jobs |-> <<>>, upd |-> {}]
  /\ sweepDue = FALSE
  /\ faults = 0
  /\ requests = 0
  /\ out = <<>>
  /\ ranOcc = {}

Init == InitWith(InitStores)

Next ==
  \/ Tick
  \/ \E t \in timers : TimerFire(t)
  \/ \E a \in BagToSet(attempts), ok \in StoreOutcomes : FindOneDone(a, ok)
  \/ \E a \in BagToSet(attempts), outcome \in ExecutorOutcomes : ExecuteDone(a, outcome)
  \/ \E a \in BagToSet(attempts), ok \in StoreOutcomes : SaveDone(a, ok)
  \/ \E a \in BagToSet(attempts), ok \in StoreOutcomes : CatchFindOneDone(a, ok)
  \/ \E a \in BagToSet(attempts), ok \in StoreOutcomes : CatchSave1Done(a, ok)
  \/ \E a \in BagToSet(attempts), ok \in StoreOutcomes : CatchSave2Done(a, ok)
  \/ SweepStart
  \/ \E p \in passes, ok \in StoreOutcomes : SweepGetOneDone(p, ok)
  \/ \E op \in Ops, id \in JobIds : CallStart(op, id)
  \/ \E c \in calls, ok \in StoreOutcomes : CallFindOneDone(c, ok)
  \/ \E c \in calls, ok \in StoreOutcomes : CallSaveDone(c, ok)
  \/ \E ok \in StoreOutcomes : LoadGetManyDone(ok)
  \/ \E ok \in StoreOutcomes : LoadSaveDone(ok)

Spec == Init /\ [][Next]_vars

\* ---- a resumption of an executeJob call, whichever await it is suspended at
AttemptStep ==
  \E a \in BagToSet(attempts) :
    \/ \E ok \in StoreOutcomes : FindOneDone(a, ok)
    \/ \E outcome \in ExecutorOutcomes : ExecuteDone(a, outcome)
    \/ \E ok \in StoreOutcomes : SaveDone(a, ok)
    \/ \E ok \in StoreOutcomes : CatchFindOneDone(a, ok)
    \/ \E ok \in StoreOutcomes : CatchSave1Done(a, ok)
    \/ \E ok \in StoreOutcomes : CatchSave2Done(a, ok)

\* The service with pause as the only request, started on jobs that all have a due
\* time (loadActiveJobs then has nothing to save).
NextPause ==
  \/ Tick
  \/ \E t \in timers : TimerFire(t)
  \/ AttemptStep
  \/ SweepStart
  \/ \E p \in passes, ok \in StoreOutcomes : SweepGetOneDone(p, ok)
  \/ \E id \in JobIds : CallStart("pause", id)
  \/ \E c \in calls, ok \in StoreOutcomes : CallFindOneDone(c, ok)
  \/ \E c \in calls, ok \in StoreOutcomes : CallSaveDone(c, ok)
  \/ \E ok \in StoreOutcomes : LoadGetManyDone(ok)

\* One overdue job, and every store and executor call eventually answers.
GuardStores == {(1 :> Overdue(ACTIVE, 2))}
GuardIds == UNION {DOMAIN st : st \in GuardStores}
SpecGuard == InitWith(GuardStores) /\ [][NextPause]_vars /\ WF_vars(AttemptStep)

\* One overdue job and pause requests, with no assumption on the calls' answers.
SpecPause == InitWith(GuardStores) /\ [][NextPause]_vars

\* The service with pause and remove as the requests.
NextRemove ==
  \/ NextPause
  \/ \E id \in JobIds : CallStart("remove", id)
  \/ \E c \in calls, ok \in StoreOutcomes : CallRemoveDone(c, ok)
SpecRemove == InitWith(GuardStores) /\ [][NextRemove]_vars

\* A restart: no requests arrive. Jobs 1 and 2 are Active and have no due time (job 1
\* never ran, job 2 last ran a minute before the start) and job 3 is Paused.
NeverRan == Row0(PT1M, ACTIVE, NullTime, NullTime, 0, 0, NullText)
RanBefore == Row0(PT1M, ACTIVE, NullTime, StartNow - checkInterval, 3, 0, NullText)
StartupStores == {(1 :> NeverRan) @@ (2 :> RanBefore) @@ (3 :> Overdue(PAUSED, 0))}
NextStartup ==
  \/ Tick
  \/ \E t \in timers : TimerFire(t)
  \/ AttemptStep
  \/ SweepStart
  \/ \E p \in passes, ok \in StoreOutcomes : SweepGetOneDone(p, ok)
  \/ \E ok \in StoreOutcomes : LoadGetManyDone(ok)
  \/ \E ok \in StoreOutcomes : LoadSaveDone(ok)
SpecStartup == InitWith(StartupStores) /\ [][NextStartup]_vars

\* A restart on Active jobs that have no due time: on job 1 alone, or on job 1 and a
\* job 2 whose schedule the calculator rejects (create saves the row before it computes
\* the due time).
PT0S == <<"P", "T", "0", "S">>
BadSchedule == Row0(PT0S, ACTIVE, NullTime, NullTime, 0, 0, NullText)
BadScheduleStores == {(1 :> NeverRan), (1 :> NeverRan) @@ (2 :> BadSchedule)}
SpecBadSchedule == InitWith(BadScheduleStores) /\ [][NextStartup]_vars

\* One overdue job, no requests, and a shutdown at any moment after the start.
NextShutdown ==
  \/ Tick
  \/ \E t \in timers : TimerFire(t)
  \/ AttemptStep
  \/ SweepStart
  \/ \E p \in passes, ok \in StoreOutcomes : SweepGetOneDone(p, ok)
  \/ \E ok \in StoreOutcomes : LoadGetManyDone(ok)
  \/ onModuleDestroy
SpecShutdown == InitWith(GuardStores) /\ [][NextShutdown]_vars

\* ---- JobsService.create
\* The schedules a create request may carry: one the calculator accepts and one it
\* rejects; both pass the DTO's validation (a non-empty string).
CreateSchedules == {PT1M, PT0S}

\* jobRepository.create(createJobDto): the columns' defaults, status Active among them.
NewJob(schedule) == Row0(schedule, ACTIVE, NullTime, NullTime, 0, 0, NullText)

\* The identity the store generates for the row.
FreshId == CHOOSE id \in JobIds :
             /\ id \notin DOMAIN store \cup {c.id : c \in calls}
             /\ \A j \in JobIds : j < id => j \in DOMAIN store \cup {c.id : c \in calls}

CreateStart(schedule) ==
  /\ boot.pc = "running"
  /\ requests < MaxCreates
  /\ requests' = requests + 1
  /\ calls' = calls \cup {[op |-> "create", id |-> FreshId, pc |-> "insert",
                            job |-> NewJob(schedule)]}
  /\ out' = <<>>
  /\ UNCHANGED <<now, store, scheduledJobs, timers, executingJobs, attempts, passes,
                 boot, sweepDue, faults, ranOcc>>

\* After the first save: calculateNextRun(savedJob.schedule) returns and the call goes
\* on to its second save, or throws and the call ends with a BadRequestException.
CreateAfterInsert(c, ok, nextRunAt) ==
  IF ok /\ nextRunAt.ok
    THEN {[c EXCEPT !.pc = "update", !.job = [@ EXCEPT !.nextRunAt = nextRunAt.at]]}
    ELSE {}

CreateInsertDone(c, ok) ==
  /\ c.pc = "insert"
  /\ StoreCall(ok)
  /\ store' = IF ok THEN Upsert(store, c.id, c.job) ELSE store
  /\ calls' = (calls \ {c}) \cup CreateAfterInsert(c, ok, calculateNextRun(c.job.schedule, now))
  /\ Commit(IF ok /\ ~calculateNextRun(c.job.schedule, now).ok
              THEN Emit(Mem, [kind |-> "refused", id |-> c.id, at |-> NullTime])
              ELSE Mem)
  /\ UNCHANGED <<now, boot, sweepDue, requests, ranOcc>>

\* After the second save: scheduleJob(savedJob).
CreateUpdateDone(c, ok) ==
  /\ c.pc = "update"
  /\ StoreCall(ok)
  /\ calls' = calls \ {c}
  /\ store' = IF ok THEN Upsert(store, c.id, c.job) ELSE store
  /\ Commit(IF ok THEN scheduleJob(Mem, c.id, c.job, now).m ELSE Mem)
  /\ UNCHANGED <<now, boot, sweepDue, requests, ranOcc>>

\* The service started on an empty jobs table, with create as the only request.
EmptyStores == {<<>>}
NextCreate ==
  \/ Tick
  \/ \E t \in timers : TimerFire(t)
  \/ AttemptStep
  \/ SweepStart
  \/ \E p \in passes, ok \in StoreOutcomes : SweepGetOneDone(p, ok)
  \/ \E ok \in StoreOutcomes : LoadGetManyDone(ok)
  \/ \E schedule \in CreateSchedules : CreateStart(schedule)
  \/ \E c \in calls, ok \in StoreOutcomes : CreateInsertDone(c, ok)
  \/ \E c \in calls, ok \in StoreOutcomes : CreateUpdateDone(c, ok)
SpecCreate == InitWith(EmptyStores) /\ [][NextCreate]_vars

\* ---- JobsService.update
\* The schedules an update request may carry: the one the job has, another one the
\* calculator accepts, and one it rejects.
UpdateSchedules == {PT1M, <<"P", "T", "2", "M">>, PT0S}

UpdateStart(id, schedule) ==
  /\ boot.pc = "running"
  /\ requests < MaxRequests
  /\ id \in DOMAIN store
  /\ requests' = requests + 1
  /\ calls' = calls \cup {[op |-> "update", id |-> id, pc |-> "updGetOne", job |-> NoJob,
                            dto |-> [schedule |-> schedule]]}
  /\ out' = <<>>
  /\ UNCHANGED <<now, store, scheduledJobs, timers, executingJobs, attempts, passes,
                 boot, sweepDue, faults, ranOcc>>

\* After findOne.  With a new schedule: unscheduleJob, Object.assign, then
\* calculateNextRun returns and the call goes on to its save, or throws and the call ends
\* there.  Otherwise: Object.assign and the save.
UpdateGetOneDone(c, ok) ==
  /\ c.pc = "updGetOne"
  /\ StoreCall(ok)
  /\ LET job == Row(store, c.id)
         nextRunAt == calculateNextRun(c.dto.schedule, now)
     IN IF ~ok \/ job = NoJob
          THEN calls' = calls \ {c} /\ Commit(Mem)
        ELSE IF c.dto.schedule = job.schedule
          THEN /\ calls' = (calls \ {c}) \cup {[c EXCEPT !.pc = "updAssign", !.job = job]}
               /\ Commit(Mem)
        ELSE IF nextRunAt.ok
          THEN /\ calls' = (calls \ {c}) \cup
                             {[c EXCEPT !.pc = "updSave",
                                        !.job = [job EXCEPT !.schedule = c.dto.schedule,
                                                            !.nextRunAt = nextRunAt.at]]}
               /\ Commit(unscheduleJob(Mem, c.id))
        ELSE /\ calls' = calls \ {c}
             /\ Commit(Emit(unscheduleJob(Mem, c.id),
                             [kind |-> "updateRejected", id |-> c.id, at |-> NullTime]))
  /\ UNCHANGED <<now, store, boot, sweepDue, requests, ranOcc>>

\* After the save: scheduleJob(job) when the schedule was changed.
UpdateSaveDone(c, ok) ==
  /\ c.pc \in {"updSave", "updAssign"}
  /\ StoreCall(ok)
  /\ calls' = calls \ {c}
  /\ store' = IF ok THEN Upsert(store, c.id, c.job) ELSE store
  /\ Commit(IF ok /\ c.pc = "updSave" THEN scheduleJob(Mem, c.id, c.job, now).m ELSE Mem)
  /\ UNCHANGED <<now, boot, sweepDue, requests, ranOcc>>

\* The whole service, started one check interval before the clock's last tick on a job
\* that has no due time yet: the start, then pause, resume, update and create requests,
\* dispatches by timer and by sweep, and a shutdown at any moment.
InitLifecycle ==
  /\ now = MaxNow - checkInterval
  /\ store = (1 :> NeverRan)
  /\ scheduledJobs = <<>>
  /\ timers = {}
  /\ executingJobs = {}
  /\ attempts = EmptyBag
  /\ passes = {}
  /\ calls = {}
  /\ boot = [pc |-> "getMany", jobs |-> <<>>, upd |-> {}]
  /\ sweepDue = FALSE
  /\ faults = 0
  /\ requests = 0
  /\ out = <<>>
  /\ ranOcc = {}
NextLifecycle ==
  \/ Tick
  \/ \E t \in timers : TimerFire(t)
  \/ AttemptStep
  \/ SweepStart
  \/ \E p \in passes, ok \in StoreOutcomes : SweepGetOneDone(p, ok)
  \/ \E op \in Ops, id \in JobIds : CallStart(op, id)
  \/ \E c \in calls, ok \in StoreOutcomes : CallFindOneDone(c, ok)
  \/ \E c \in calls, ok \in StoreOutcomes : CallSaveDone(c, ok)
  \/ \E ok \in StoreOutcomes : LoadGetManyDone(ok)
  \/ \E ok \in StoreOutcomes : LoadSaveDone(ok)
  \/ \E id \in JobIds, schedule \in UpdateSchedules : UpdateStart(id, schedule)
  \/ \E c \in calls, ok \in StoreOutcomes : UpdateGetOneDone(c, ok)
  \/ \E c \in calls, ok \in StoreOutcomes : UpdateSaveDone(c, ok)
  \/ \E schedule \in CreateSchedules : CreateStart(schedule)
  \/ \E c \in calls, ok \in StoreOutcomes : CreateInsertDone(c, ok)
  \/ \E c \in calls, ok \in StoreOutcomes : CreateUpdateDone(c, ok)
  \/ onModuleDestroy
SpecLifecycle == InitLifecycle /\ [][NextLifecycle]_vars

\* One Active job with a parsable schedule (one that has no due time yet, or one that is
\* overdue), no requests; time passes, timers that are ready fire, the sweep runs and
\* every store and executor call eventually answers.
SpecRetry ==
  /\ InitWith({(1 :> NeverRan), (1 :> Overdue(ACTIVE, 0))})
  /\ [][NextStartup]_vars
  /\ WF_vars(Tick)
  /\ WF_vars(\E t \in timers : TimerFire(t))
  /\ WF_vars(AttemptStep)
  /\ WF_vars(SweepStart)
  /\ WF_vars(\E p \in passes, ok \in StoreOutcomes : SweepGetOneDone(p, ok))
  /\ WF_vars(\E ok \in StoreOutcomes : LoadGetManyDone(ok) \/ LoadSaveDone(ok))

\* ---- the calculator's inputs
\* Interval strings of the form PT[nH][nM][nS], each with the duration in ms it denotes.
IntervalCases ==
  { [s |-> <<"P", "T", "1", "H">>, d |-> 3600000],
    [s |-> <<"P", "T", "5", "M">>, d |-> 300000],
    [s |-> <<"P", "T", "3", "0", "S">>, d |-> 30000],
    [s |-> <<"P", "T", "1", "H", "3", "0", "M">>, d |-> 5400000],
    [s |-> <<"P", "T", "1", "H", "0", "M", "5", "S">>, d |-> 3605000],
    [s |-> <<"P", "T", "9", "0", "M">>, d |-> 5400000],
    [s |-> <<"P", "T", "2", "H", "3", "M", "4", "S">>, d |-> 7384000],
    [s |-> <<"P", "T", "0", "S">>, d |-> 0],
    [s |-> <<"P", "T", "0", "H", "0", "M">>, d |-> 0],
    [s |-> <<"P", "T", "0", "H", "0", "M", "0", "S">>, d |-> 0] }


\* Strings that begin with PT and are not of that form: a trailing character, components
\* out of order, a repeated component.
MalformedIntervals ==
  { <<"P", "T", "5", "M", "X">>,
    <<"P", "T", "1", "M", "1", "H">>,
    <<"P", "T", "1", "M", "1", "M">> }


\* Five-field cron strings of the documented syntax, each with the values its fields
\* denote (minute, hour, day of month, month 1..12, weekday 0 = Sunday .. 6 = Saturday).
CronCases ==
  { [s |-> <<"*", "/", "5", " ", "*", " ", "*", " ", "*", " ", "*">>,
      minute |-> {0, 5, 10, 15, 20, 25, 30, 35, 40, 45, 50, 55}, hour |-> 0..23, day |-> 1..31, month |-> 1..12, weekday |-> 0..6],
    [s |-> <<"0", " ", "9", " ", "*", " ", "*", " ", "*">>,
      minute |-> {0}, hour |-> {9}, day |-> 1..31, month |-> 1..12, weekday |-> 0..6],
    [s |-> <<"0", " ", "1", "0", " ", "*", " ", "*", " ", "1">>,
      minute |-> {0}, hour |-> {10}, day |-> 1..31, month |-> 1..12, weekday |-> {1}],
    [s |-> <<"0", " ", "1", "0", " ", "9", " ", "*", " ", "*">>,
      minute |-> {0}, hour |-> {10}, day |-> {9}, month |-> 1..12, weekday |-> 0..6],
    [s |-> <<"3", "0", " ", "1", "4", " ", "1", "-", "7", " ", "1", " ", "0", ",", "6">>,
      minute |-> {30}, hour |-> {14}, day |-> 1..7, month |-> {1}, weekday |-> {0, 6}],
    [s |-> <<"*", " ", "*", " ", "*", " ", "*", " ", "*">>,
      minute |-> 0..59, hour |-> 0..23, day |-> 1..31, month |-> 1..12, weekday |-> 0..6],
    [s |-> <<"1", "5", ",", "4", "5", " ", "*", "/", "6", " ", "*", " ", "*", " ", "*">>,
      minute |-> {15, 45}, hour |-> {0, 6, 12, 18}, day |-> 1..31, month |-> 1..12, weekday |-> 0..6],
    [s |-> <<"0", " ", "0", " ", "*", " ", "2", " ", "*">>,
      minute |-> {0}, hour |-> {0}, day |-> 1..31, month |-> {2}, weekday |-> 0..6] }


\* Cron strings whose minute field is of no documented syntax.
OtherSyntaxCrons ==
  { <<"*", "/", "x", " ", "*", " ", "*", " ", "*", " ", "*">>,
    <<"1", "-", " ", "*", " ", "*", " ", "*", " ", "*">>,
    <<"a", "b", "c", " ", "*", " ", "*", " ", "*", " ", "*">>,
    <<"0", ",", "x", " ", "*", " ", "*", " ", "*", " ", "*">> }


\* Cron strings whose minute field is a comma list with a token that is not an integer.
PartialListCrons ==
  { <<"0", ",", "2", "-", "5", " ", "*", " ", "*", " ", "*", " ", "*">>,
    <<"0", ",", "7", "x", " ", "*", " ", "*", " ", "*", " ", "*">> }

CalcSchedules ==
  {k.s : k \in IntervalCases} \cup MalformedIntervals \cup {k.s : k \in CronCases}
    \cup OtherSyntaxCrons \cup PartialListCrons

\* The reference times, in ms after 2023-12-31T00:00 (a Sunday): Monday 2024-01-01 at
\* 00:00:00, at 10:00:00 and at 10:00:30.500, and Tuesday 2024-01-02 at 10:00:00.
CalcTimes == {86400000, 122400000, 122430500, 208800000}

\* The service started at one of the reference times on an empty jobs table; the clock
\* stands still while one create request, with any of the schedules, is served: create
\* calls calculateNextRun(schedule) and answers with the job or with the refusal.
InitCalc ==
  /\ now \in CalcTimes
  /\ store = <<>>
  /\ scheduledJobs = <<>>
  /\ timers = {}
  /\ executingJobs = {}
  /\ attempts = EmptyBag
  /\ passes = {}
  /\ calls = {}
  /\ boot = [pc |-> "getMany", jobs |-> <<>>, upd |-> {}]
  /\ sweepDue = FALSE
  /\ faults = 0
  /\ requests = 0
  /\ out = <<>>
  /\ ranOcc = {}
NextCalc ==
  \/ \E ok \in StoreOutcomes : LoadGetManyDone(ok)
  \/ \E schedule \in CalcSchedules : CreateStart(schedule)
  \/ \E c \in calls, ok \in StoreOutcomes : CreateInsertDone(c, ok)
  \/ \E c \in calls, ok \in StoreOutcomes : CreateUpdateDone(c, ok)
SpecCalc == InitCalc /\ [][NextCalc]_vars

\* An overdue job, a job that is not due before the clock's last tick, and pause requests.
NotYetDue ==
  Row0(PT1M, ACTIVE, StartNow + 10 * checkInterval, StartNow - checkInterval, 1, 0, NullText)
TwoStores == {(1 :> Overdue(ACTIVE, 0)) @@ (2 :> NotYetDue)}
SpecTwo == InitWith(TwoStores) /\ [][NextPause]_vars

\* One overdue job that has failed 2, 5, 9 or 1023 times in a row.
BackoffStores ==
  { (1 :> Overdue(ACTIVE, 2)), (1 :> Overdue(ACTIVE, 5)), (1 :> Overdue(ACTIVE, 9)),
    (1 :> Overdue(ACTIVE, 1023)) }
SpecBackoff == InitWith(BackoffStores) /\ [][NextPause]_vars

\* concurrencyLimit + 1 overdue jobs, and their timers.
ManyStores == {[id \in JobIds |-> Overdue(ACTIVE, 0)]}
NextMany ==
  \/ \E ok \in StoreOutcomes : LoadGetManyDone(ok)
  \/ \E t \in timers : TimerFire(t)
SpecMany == InitWith(ManyStores) /\ [][NextMany]_vars

\* concurrencyLimit + 1 overdue jobs whose entries the sweep finds before their timers
\* have fired, with the store and the executor answering one executeJob call at a time:
\* the call of the smallest identity in flight is the one that resumes.
AttemptStepOf(a) ==
  \/ \E ok \in StoreOutcomes : FindOneDone(a, ok)
  \/ \E outcome \in ExecutorOutcomes : ExecuteDone(a, outcome)
  \/ \E ok \in StoreOutcomes : SaveDone(a, ok)
  \/ \E ok \in StoreOutcomes : CatchFindOneDone(a, ok)
  \/ \E ok \in StoreOutcomes : CatchSave1Done(a, ok)
  \/ \E ok \in StoreOutcomes : CatchSave2Done(a, ok)

AttemptInTurn ==
  \E a \in BagToSet(attempts) :
    /\ \A b \in BagToSet(attempts) : a.id <= b.id
    /\ AttemptStepOf(a)

NextBatches ==
  \/ Tick
  \/ AttemptInTurn
  \/ SweepStart
  \/ \E p \in passes, ok \in StoreOutcomes : SweepGetOneDone(p, ok)
  \/ \E ok \in StoreOutcomes : LoadGetManyDone(ok)
\* The start, one check interval before the clock's last tick: one sweep follows.
InitBatches ==
  /\ now = MaxNow - checkInterval
  /\ store \in ManyStores
  /\ scheduledJobs = <<>>
  /\ timers = {}
  /\ executingJobs = {}
  /\ attempts = EmptyBag
  /\ passes = {}
  /\ calls = {}
  /\ boot = [pc |-> "getMany", jobs |-> <<>>, upd |-> {}]
  /\ sweepDue = FALSE
  /\ faults = 0
  /\ requests = 0
  /\ out = <<>>
  /\ ranOcc = {}
SpecBatches == InitBatches /\ [][NextBatches]_vars

\* ------------------------------------------------------------ properties
Emitted(log, kind) == {i \in 1..Len(log) : log[i].kind = kind}
RanFor(occ, id) == {o \in occ : o[1] = id}

\* C1: for every job identity at most one execution attempt is in flight and it holds
\* the identity's guard entry; a dispatch for an identity that is in the Execution Guard
\* returns without invoking the executor, without writing the identity's row and without
\* removing the guard entry.
OneAttemptPerIdentity ==
  \A a \in BagToSet(attempts) :
    /\ CopiesIn(a, attempts) = 1
    /\ a.id \in executingJobs
    /\ \A b \in BagToSet(attempts) : b.id = a.id => b = a

DuplicateSuppressed ==
  \A i \in Emitted(out', "duplicate") :
    /\ out'[i].id \in executingJobs
    /\ out'[i].id \in executingJobs'
    /\ InFlight(attempts', out'[i].id) = InFlight(attempts, out'[i].id)
    /\ Row(store', out'[i].id) = Row(store, out'[i].id)
    /\ RanFor(ranOcc', out'[i].id) = RanFor(ranOcc, out'[i].id)

C1_SingleAttemptPerIdentity == []OneAttemptPerIdentity /\ [][DuplicateSuppressed]_vars

\* A dispatch has just been suppressed while the identity's attempt is in flight.
C1_Witness ==
  \E i \in Emitted(out, "duplicate") :
    out[i].id \in executingJobs /\ InFlight(attempts, out[i].id) # {}

\* C2: the executor is invoked at most once for a due occurrence of a job, whichever
\* of the per-job timer and the sweep passes trigger on it and however their store
\* awaits interleave.
C2_AtMostOncePerOccurrence ==
  [][\A i \in Emitted(out', "invoke") : <<out'[i].id, out'[i].at>> \notin ranOcc]_vars

\* C3: in every reachable state at most concurrencyLimit execution attempts are in
\* flight in the whole process, whether timers or sweep passes dispatched them.
C3_AtMostKInFlight == BagCardinality(attempts) <= concurrencyLimit

\* C4: no job identity is at once in the Due-Time Index and in the Execution Guard.
C4_IndexGuardDisjoint == \A id \in executingJobs : ~HasEntry(scheduledJobs, id)

\* C5: each identity has at most one index entry and at most one live timer, and the
\* live timers are exactly the ones the index entries record, armed for the entry's
\* identity and due time.
EntryTimer(e) == {t \in timers : t.tid = e.timeoutId}

C5_OneLiveTimerPerEntry ==
  /\ \A i, j \in 1..Len(scheduledJobs) :
       (scheduledJobs[i].id = scheduledJobs[j].id
         \/ scheduledJobs[i].timeoutId = scheduledJobs[j].timeoutId) => i = j
  /\ \A t, u \in timers : (t.id = u.id \/ t.tid = u.tid) => t = u
  /\ \A i \in 1..Len(scheduledJobs) :
       \E t \in EntryTimer(scheduledJobs[i]) :
         t.id = scheduledJobs[i].id /\ t.due = scheduledJobs[i].nextRunAt
  /\ \A t \in timers : \E i \in 1..Len(scheduledJobs) : scheduledJobs[i].timeoutId = t.tid

\* scheduleJob has just replaced an entry and its timer by a new entry and timer.
C5_Witness ==
  /\ Emitted(out, "unscheduled") # {}
  /\ Emitted(out, "scheduled") # {}
  /\ Len(scheduledJobs) = 1
  /\ Cardinality(timers) = 1

\* C6: in every reachable state unscheduleJob(id) leaves id without index entry and
\* without timer, changes nothing when id has no entry, and does the same called twice
\* as called once; and after every step in which an entry was unscheduled and not
\* scheduled again, the identity has no entry and no timer that could fire.
Unscheduled(M, id) == ~HasEntry(M.sj, id) /\ \A t \in M.tm : t.id # id

UnscheduleCancels ==
  \A id \in JobIds :
    /\ Unscheduled(unscheduleJob(Mem, id), id)
    /\ ~HasEntry(scheduledJobs, id) => unscheduleJob(Mem, id) = Mem
    /\ unscheduleJob(unscheduleJob(Mem, id), id) = unscheduleJob(Mem, id)

UnscheduledStays ==
  \A i \in Emitted(out', "unscheduled") :
    (\A j \in Emitted(out', "scheduled") : j < i \/ out'[j].id # out'[i].id)
      => Unscheduled(Mem', out'[i].id)

C6_UnscheduleCancels == []UnscheduleCancels /\ [][UnscheduledStays]_vars

\* An entry whose due time had elapsed has just been unscheduled: its timer is gone.
C6_Witness ==
  \E i \in Emitted(out, "unscheduled") :
    /\ out[i].at <= now
    /\ Emitted(out, "scheduled") = {}
    /\ Unscheduled(Mem, out[i].id)

\* C7: a guard entry is held only by an execution attempt in flight, and when every
\* store and executor call eventually answers, every identity in the Execution Guard
\* eventually leaves it.
GuardHeldByAttempt == executingJobs = {a.id : a \in BagToSet(attempts)}

C7_GuardReleased ==
  /\ []GuardHeldByAttempt
  /\ \A id \in GuardIds : (id \in executingJobs) ~> (id \notin executingJobs)

\* An attempt has just ended with a store error in its failure handling, guard released.
C7_Witness == Emitted(out, "rejected") # {} /\ executingJobs = {}

\* The attempt for a's identity in the next state, at position pc.
Resumed(a, pc) == {b \in InFlight(attempts', a.id) : b.pc = pc}

\* The index entry and the live timer of id carry due time at, the timer firing then or
\* at once if that time has passed.
ScheduledAt(M, id, at, t) ==
  /\ HasEntry(M.sj, id)
  /\ EntryOf(M.sj, id).nextRunAt = at
  /\ \E tm \in M.tm : tm.id = id /\ tm.due = at /\ tm.fireAt = Max(t, at)

\* min(2^n, 60) minutes, for any n >= 0.
BackoffMinutes(n) == IF n >= 6 THEN 60 ELSE 2 ^ n

\* C8: a failed attempt persists failureCount raised by one to n and then sets
\* nextRunAt = now + min(2^n, 60) minutes; when its writes succeed the job is persisted
\* with that due time and, if Active, scheduled at exactly that time.
BackoffComputed ==
  \A a \in BagToSet(attempts) :
    a.pc = "catchSave1" =>
      \A b \in Resumed(a, "catchSave2") :
        /\ a.job.failureCount = a.loaded.failureCount + 1
        /\ Row(store', a.id) = a.job
        /\ b.job = [a.job EXCEPT !.nextRunAt =
                      now + BackoffMinutes(a.job.failureCount) * MsPerMinute]

BackoffApplied ==
  \A i \in Emitted(out', "failure") :
    \A a \in InFlight(attempts, out'[i].id) :
      /\ a.pc = "catchSave2"
      /\ Row(store', a.id) = a.job
      /\ a.job.status = ACTIVE => ScheduledAt(Mem', a.id, a.job.nextRunAt, now)

C8_BackoffDelay == [][BackoffComputed /\ BackoffApplied]_vars

\* A tenth failure in a row has just been handled: the job is due in exactly one hour.
C8_Witness ==
  /\ Emitted(out, "failure") # {}
  /\ Row(store, 1).failureCount = 10
  /\ Row(store, 1).nextRunAt = now + 60 * MsPerMinute
  /\ ScheduledAt(Mem, 1, now + 60 * MsPerMinute, now)

\* C9: a successful attempt restarts the growth of the backoff: when the executor fails
\* for a job whose last attempt succeeded (its lastError is null), the job is delayed
\* like after a first failure.
C9_BackoffRestartsAfterSuccess ==
  [][\A a \in BagToSet(attempts) :
       (a.pc = "catchSave1" /\ a.err = "executor error" /\ a.loaded.lastError = NullText) =>
         \A b \in Resumed(a, "catchSave2") : b.job.nextRunAt = now + backoffDelay(1)]_vars

\* C10: an attempt whose executor call succeeds and whose calculator returns computes
\* runCount + 1, lastRunAt = the time of the invocation, lastError = null, failureCount
\* unchanged and nextRunAt = the calculator's result from now; when its save succeeds
\* the row holds exactly that and the identity's index entry carries that due time.
Stamped ==
  \A i \in Emitted(out', "invoke") :
    \A b \in Resumed([id |-> out'[i].id], "execute") :
      /\ b.loaded = Row(store, b.id)
      /\ b.job = [b.loaded EXCEPT !.lastRunAt = now, !.runCount = @ + 1]

NextRunComputed ==
  \A a \in BagToSet(attempts) :
    a.pc = "execute" =>
      \A b \in Resumed(a, "save") :
        b.job = [a.loaded EXCEPT !.runCount = @ + 1, !.lastRunAt = a.job.lastRunAt,
                                 !.lastError = NullText,
                                 !.nextRunAt = calculateNextRun(a.loaded.schedule, now).at]

SuccessPersisted ==
  \A i \in Emitted(out', "success") :
    \A a \in InFlight(attempts, out'[i].id) :
      /\ a.pc = "save"
      /\ Row(store', a.id) = a.job
      /\ a.job.failureCount = a.loaded.failureCount
      /\ ScheduledAt(Mem', a.id, a.job.nextRunAt, now)

C10_SuccessBookkeeping == [][Stamped /\ NextRunComputed /\ SuccessPersisted]_vars

\* A job that had failed before has just succeeded: error cleared, failures kept.
C10_Witness ==
  /\ Emitted(out, "success") # {}
  /\ Row(store, 1).lastError = NullText
  /\ Row(store, 1).failureCount = 2
  /\ Row(store, 1).runCount = 4
  /\ ScheduledAt(Mem, 1, Row(store, 1).nextRunAt, now)

\* C11: an attempt in which the executor was invoked leaves runCount one higher and
\* lastRunAt stamped also when the executor signals an error (the job that the failure
\* handling persists carries the attempt's runCount and lastRunAt); hence
\* failureCount <= runCount for every persisted job.
FailuresAreRuns == \A id \in DOMAIN store : store[id].failureCount <= store[id].runCount

FailureKeepsStamp ==
  \A a \in BagToSet(attempts) :
    (a.pc = "catchFindOne" /\ a.err = "executor error") =>
      \A b \in Resumed(a, "catchSave1") :
        b.job.runCount = a.job.runCount /\ b.job.lastRunAt = a.job.lastRunAt

C11_EveryInvocationCounted == []FailuresAreRuns /\ [][FailureKeepsStamp]_vars

\* C12: when the store answers the re-fetch at the start of an attempt with no job or
\* with a job that is not Active, the attempt ends there: the executor is not invoked,
\* the store, the index and the timers are unchanged, and the guard entry is released.
AbortsInactive ==
  \A a \in BagToSet(attempts) :
    (a.pc = "findOne" /\ InFlight(attempts', a.id) # {a} /\ faults' = faults
       /\ Row(store, a.id).status # ACTIVE) =>
      /\ Emitted(out', "inactive") # {}
      /\ Emitted(out', "invoke") = {}
      /\ ranOcc' = ranOcc
      /\ store' = store
      /\ scheduledJobs' = scheduledJobs
      /\ timers' = timers
      /\ InFlight(attempts', a.id) = {}
      /\ a.id \notin executingJobs'

InactiveOnlyThen ==
  \A i \in Emitted(out', "inactive") : Row(store, out'[i].id).status # ACTIVE

C12_InactiveAborts == [][AbortsInactive /\ InactiveOnlyThen]_vars

\* An attempt for a removed job has just been aborted: no row, no entry, no guard.
C12_Witness ==
  /\ Emitted(out, "inactive") # {}
  /\ store = <<>>
  /\ scheduledJobs = <<>>
  /\ executingJobs = {}

\* C13: no write of the Dispatcher changes a job's persisted status: after the save of
\* the success path and after each save of the failure handling the row has the status
\* it had just before, also when pause(id) was performed during the attempt.
C13_StatusUntouched ==
  [][\A a \in BagToSet(attempts) :
       (a.pc \in {"save", "catchSave1", "catchSave2"} /\ InFlight(attempts', a.id) # {a}) =>
         Row(store', a.id).status = Row(store, a.id).status]_vars

\* C14: once pause(id) has completed and until resume(id) is called (here: never), id
\* has no index entry and no live timer, and the executor is not invoked for id.
\* Every pause that was requested has completed, none of them stopped by a store error.
PauseCompleted == requests > 0 /\ calls = {} /\ faults = 0

C14_PausedStaysIdle ==
  /\ [](PauseCompleted => scheduledJobs = <<>> /\ timers = {})
  /\ [][PauseCompleted => Emitted(out', "invoke") = {}]_vars

\* C15: a start on Active jobs that have no due time, with the store answering the
\* start's calls, ends (loadActiveJobs returns) with each of them having a due time
\* after the start persisted, and an index entry with a live timer for that due time;
\* and the executor is invoked for none of their occurrences that were due before the
\* start.
StartupCompletes == boot.pc # "running" /\ boot'.pc = "running" /\ faults' = 0

LackDueTime(st) == {id \in DOMAIN st : st[id].status = ACTIVE /\ st[id].nextRunAt = NullTime}

AssignedAndScheduled(id) ==
  /\ store'[id].nextRunAt # NullTime
  /\ store'[id].nextRunAt > StartNow
  /\ HasEntry(scheduledJobs', id)
  /\ EntryOf(scheduledJobs', id).nextRunAt = store'[id].nextRunAt
  /\ \E t \in timers' : t.tid = EntryOf(scheduledJobs', id).timeoutId /\ t.id = id

NoOldOccurrence == \A o \in ranOcc : o[2] > StartNow

C15_StartupAssignsAll ==
  /\ [][StartupCompletes => \A id \in LackDueTime(store) : AssignedAndScheduled(id)]_vars
  /\ []NoOldOccurrence

\* Both jobs were given a due time at the start and have run since.
C15_Witness ==
  /\ faults = 0
  /\ \A id \in {1, 2} : store[id].nextRunAt # NullTime /\ \E o \in ranOcc : o[1] = id

\* C16: at a start whose store calls succeed, an Active job with an unparsable schedule
\* is skipped on its own: when loadActiveJobs returns, every Active job whose schedule
\* parses has a due time persisted and an index entry, and the periodic sweep is armed.
Parses(job, t) == calculateNextRun(job.schedule, t).ok

C16_BadScheduleSkippedAlone ==
  [][StartupCompletes =>
       \A id \in DOMAIN store :
         (store[id].status = ACTIVE /\ Parses(store[id], now)) =>
           store'[id].nextRunAt # NullTime /\ HasEntry(scheduledJobs', id)]_vars

\* C17: after onModuleDestroy the index is empty, no per-job timer is live and the
\* periodic sweep is stopped, in every later state, also when attempts or a sweep pass
\* were in flight at the shutdown and complete afterwards.
C17_ShutdownStays ==
  boot.pc = "destroyed" => scheduledJobs = <<>> /\ timers = {} /\ ~sweepDue

\* C18: a store error during a dispatch does not escape executeJob (its promise is not
\* rejected into the timer callback or the sweep pass), and the attempt that met the
\* error ends with its job in the index again, left to be retried.
StoreErrorContained == Emitted(out', "rejected") = {}

LeftForRetry ==
  \A a \in BagToSet(attempts) :
    (faults' > faults /\ InFlight(attempts', a.id) = {}) => HasEntry(scheduledJobs', a.id)

C18_StoreErrorContained == [][StoreErrorContained /\ LeftForRetry]_vars

\* C19: a job is persisted with status Active only if its schedule parsed: once a create
\* request has returned, no row with an unparsable schedule is left with status Active
\* and none has an index entry; a row of a finished create that is Active has a due time.
Created(id) == id \in DOMAIN store /\ ~(\E c \in calls : c.id = id)

C19_ActiveOnlyIfParsed ==
  \A id \in JobIds :
    (Created(id) /\ store[id].status = ACTIVE /\ faults = 0) =>
      /\ Parses(store[id], now)
      /\ store[id].nextRunAt # NullTime

\* C20: failureCount is incremented and lastError set only when the executor itself
\* signalled the error: an attempt whose executor call returned and that enters its
\* failure handling because the next-run computation or the store write threw does not
\* record an execution failure.
OnlyExecutorFailuresCounted ==
  \A a \in BagToSet(attempts) :
    (a.pc = "catchFindOne" /\ a.job # NoJob /\ a.err # "executor error") =>
      \A b \in Resumed(a, "catchSave1") :
        /\ b.job.failureCount = Row(store, a.id).failureCount
        /\ b.job.lastError = Row(store, a.id).lastError

C20_OnlyExecutorFailuresCounted == [][OnlyExecutorFailuresCounted]_vars

\* ---- the calculator, observed through create: the call that calculateNextRun returned
\* a time for carries it to its second save; the one it threw for is refused.
Returned == {c \in calls : c.op = "create" /\ c.pc = "update"}
Refused == {store[out[i].id].schedule : i \in Emitted(out, "refused")}

\* C21: for an interval string PT[nH][nM][nS] of total duration d > 0 and a reference
\* time t the calculator returns exactly t + d; when the total is zero it throws and
\* returns no time.
C21_IntervalExact ==
  \A k \in IntervalCases :
    /\ \A c \in Returned : c.job.schedule = k.s => k.d > 0 /\ c.job.nextRunAt = now + k.d
    /\ k.s \in Refused => k.d = 0

\* The calculator has returned a time for an interval with all three components, from a
\* reference time that is not on a whole minute.
C21_Witness ==
  \E c \in Returned :
    /\ c.job.schedule = <<"P", "T", "2", "H", "3", "M", "4", "S">>
    /\ now % MsPerMinute # 0
    /\ c.job.nextRunAt = now + 7384000

\* The calendar fields of a time t within January 2024, counted from the fact that t = 0
\* is Sunday 2023-12-31 at 00:00.
DayIndex(t) == t \div 86400000
MinuteOf(t) == (t \div 60000) % 60
HourOf(t) == (t \div 3600000) % 24
DayOf(t) == IF DayIndex(t) = 0 THEN 31 ELSE DayIndex(t)
MonthOf(t) == IF DayIndex(t) = 0 THEN 12 ELSE 1
WeekdayOf(t) == DayIndex(t) % 7

\* Time t satisfies each of the five fields of cron case k.
Satisfies(k, t) ==
  /\ MinuteOf(t) \in k.minute
  /\ HourOf(t) \in k.hour
  /\ DayOf(t) \in k.day
  /\ MonthOf(t) \in k.month
  /\ WeekdayOf(t) \in k.weekday

\* C22: a time r the calculator returns for a cron string from reference time t lies on a
\* whole minute, its minute, hour, day of month, month and weekday (0 = Sunday) each
\* satisfy the corresponding field, and r is strictly after t.
C22_CronResultMatches ==
  \A k \in CronCases :
    \A c \in Returned :
      c.job.schedule = k.s =>
        /\ c.job.nextRunAt % 60000 = 0
        /\ Satisfies(k, c.job.nextRunAt)
        /\ c.job.nextRunAt > now

\* From Monday 2024-01-01 the calculator has returned Saturday 2024-01-06 14:30 for
\* "30 14 1-7 1 0,6".
C22_Witness ==
  \E c \in Returned :
    /\ c.job.schedule = <<"3", "0", " ", "1", "4", " ", "1", "-", "7", " ", "1", " ", "0", ",", "6">>
    /\ c.job.nextRunAt = 570600000

\* C23: for a cron string the calculator returns the earliest of the 10080 candidates
\* trunc(t) + 1 min .. trunc(t) + 10080 min that matches all five fields, and throws
\* exactly when none of them matches; */5 * * * * from 00:00:00 gives 00:05:00 the same
\* day and 0 9 * * * from 10:00:00 gives 09:00:00 the next day.
Candidates(t) == {(t - (t % 60000)) + j * 60000 : j \in 1..10080}

EarliestMatch(k, t, r) ==
  /\ r \in Candidates(t)
  /\ Satisfies(k, r)
  /\ \A u \in Candidates(t) : u < r => ~Satisfies(k, u)

C23_CronEarliestOfWeek ==
  /\ \A k \in CronCases :
       /\ \A c \in Returned : c.job.schedule = k.s => EarliestMatch(k, now, c.job.nextRunAt)
       /\ k.s \in Refused => \A u \in Candidates(now) : ~Satisfies(k, u)
  /\ \A c \in Returned :
       /\ (c.job.schedule = <<"*", "/", "5", " ", "*", " ", "*", " ", "*", " ", "*">>
             /\ now = 86400000) => c.job.nextRunAt = 86700000
       /\ (c.job.schedule = <<"0", " ", "9", " ", "*", " ", "*", " ", "*">>
             /\ now = 122400000) => c.job.nextRunAt = 205200000

\* From Monday 10:00:30.500 the calculator has returned the next Monday 10:00:00 for
\* "0 10 * * 1": the last of the 10080 candidates, 7 days after the truncated time.
C23_Witness ==
  \E c \in Returned :
    /\ c.job.schedule = <<"0", " ", "1", "0", " ", "*", " ", "*", " ", "1">>
    /\ now = 122430500
    /\ c.job.nextRunAt = 122400000 + 10080 * 60000

\* C24: the field matcher decides each field on its own: for a field of the documented
\* syntax (star, step, integer, range, list of integers) it matches exactly the values
\* the field denotes, and a cron string with a field of any other syntax makes the
\* calculator fail, never return a time.
Served(schedule) == schedule \in Refused \/ \E c \in Returned : c.job.schedule = schedule

FieldsDecided(k, parts) ==
  /\ \A v \in 0..59 : matchesCronField(parts[1], v) <=> v \in k.minute
  /\ \A v \in 0..23 : matchesCronField(parts[2], v) <=> v \in k.hour
  /\ \A v \in 1..31 : matchesCronField(parts[3], v) <=> v \in k.day
  /\ \A v \in 1..12 : matchesCronField(parts[4], v) <=> v \in k.month
  /\ \A v \in 0..6 : matchesCronField(parts[5], v) <=> v \in k.weekday

C24_FieldMatcher ==
  /\ \A k \in CronCases : Served(k.s) => FieldsDecided(k, splitSpaces(trim(k.s)))
  /\ \A c \in Returned : c.job.schedule \notin OtherSyntaxCrons

\* C25: a comma list with a token that is not a bare integer matches no value, neither
\* through its other tokens nor through a numeric prefix of the bad token: the calculator
\* returns no time for a cron string whose minute field is such a list.
C25_NoPartialListMatch ==
  \A c \in Returned :
    c.job.schedule \in PartialListCrons =>
      \A v \in 0..59 : ~matchesCronField(splitSpaces(trim(c.job.schedule))[1], v)

\* C26: a string that begins with PT and is not PT[nH][nM][nS] as a whole (a trailing
\* character, components out of order or repeated) is rejected: the calculator returns
\* no time for it.
C26_IntervalWholeString == \A c \in Returned : c.job.schedule \notin MalformedIntervals

\* C27: scheduleJob on an Active job whose due time has passed clamps the delay to zero:
\* the index entry keeps the job's past due time, its timer is ready to fire at once, and
\* when the timer fires the job is dispatched (an attempt for it is in flight).
\* Every entry scheduleJob has just added has a live timer for max(now, due time).
ArmedForDueTime ==
  \A i \in Emitted(out', "scheduled") :
    /\ HasEntry(scheduledJobs', out'[i].id)
    /\ LET e == EntryOf(scheduledJobs', out'[i].id)
       IN /\ e.nextRunAt = out'[i].at
          /\ \E t \in timers' :
               /\ t.tid = e.timeoutId /\ t.id = e.id /\ t.due = e.nextRunAt
               /\ t.fireAt = Max(now', e.nextRunAt)

\* loadActiveJobs has read the jobs and scheduled them: an overdue job's entry carries
\* the due time of its row.
PastDueTimeKept ==
  (boot.pc = "getMany" /\ boot'.pc = "running" /\ faults' = faults) =>
    \A id \in DOMAIN store :
      (store[id].status = ACTIVE /\ store[id].nextRunAt # NullTime
         /\ store[id].nextRunAt < now) =>
        /\ HasEntry(scheduledJobs', id)
        /\ EntryOf(scheduledJobs', id).nextRunAt = store[id].nextRunAt

\* A timer that goes without having been cancelled has handed its job to executeJob.
TimerDispatches ==
  \A t \in timers \ timers' :
    (\A i \in Emitted(out', "unscheduled") : out'[i].id # t.id) =>
      now >= t.fireAt /\ InFlight(attempts', t.id) # {}

C27_PastDueClamped == [][ArmedForDueTime /\ PastDueTimeKept /\ TimerDispatches]_vars

\* An overdue job has just been scheduled: its entry has the past due time and its timer
\* is ready to fire.
C27_Witness ==
  \E i \in Emitted(out, "scheduled") :
    /\ out[i].at < now
    /\ EntryOf(scheduledJobs, out[i].id).nextRunAt = out[i].at
    /\ \E t \in timers : t.id = out[i].id /\ t.fireAt = now

\* C28: scheduleJob called with a job that is not Active changes nothing.  The failure
\* handling calls it with the row it read, which is Paused when pause ran during the
\* attempt: that step leaves the index (also an entry that exists for the identity) and
\* the timers as they were, and does no more than its own save and guard release.
NotActiveIsNoOp ==
  \A a \in BagToSet(attempts) :
    (a.pc = "catchSave2" /\ a.job.status # ACTIVE /\ faults' = faults
       /\ InFlight(attempts', a.id) = {}) =>
      /\ scheduledJobs' = scheduledJobs
      /\ timers' = timers
      /\ Emitted(out', "scheduled") = {} /\ Emitted(out', "unscheduled") = {}
      /\ executingJobs' = executingJobs \ {a.id}
      /\ store' = Upsert(store, a.id, a.job)

C28_NotActiveNoOp == [][NotActiveIsNoOp]_vars

\* A failed attempt has just ended with the Paused row it had read, while the identity
\* had an index entry (resume had scheduled it meanwhile): the entry is still there.
C28_Witness ==
  \E i \in Emitted(out, "failure") :
    /\ Row(store, out[i].id).status = PAUSED
    /\ HasEntry(scheduledJobs, out[i].id)

\* C29: unscheduleJob(id), as pause calls it, changes only id's index entry and timer:
\* the Execution Guard, the attempts in flight (one for id among them), the entries and
\* timers of the other identities and the store are as they were.
OtherEntries(sj, id) == SelectSeq(sj, LAMBDA e : e.id # id)
OtherTimers(tm, id) == {t \in tm : t.id # id}

UnscheduleTouchesOnlyId ==
  \A c \in calls \ calls' :
    (c.op = "pause" /\ c.pc = "findOne" /\ faults' = faults /\ c.id \in DOMAIN store) =>
      /\ ~HasEntry(scheduledJobs', c.id)
      /\ \A t \in timers' : t.id # c.id
      /\ OtherEntries(scheduledJobs', c.id) = OtherEntries(scheduledJobs, c.id)
      /\ OtherTimers(timers', c.id) = OtherTimers(timers, c.id)
      /\ executingJobs' = executingJobs
      /\ attempts' = attempts
      /\ store' = store

BatchWithinLimit ==
  \A p \in passes : Cardinality(OfPass(attempts, p.now)) <= concurrencyLimit

PassDispatchesAll ==
  \A p \in passes : (\A q \in passes' : q.now # p.now) => p.i >= Len(p.jobs)

C30_BatchesDispatchAll == [][BatchWithinLimit /\ PassDispatchesAll]_vars

\* C31: at a start no timer is armed and no index entry made before the due times
\* computed for the jobs that lacked one have been persisted: while the batch save is
\* awaited the index and the timers are empty; when it succeeds every Active job has a
\* due time in the store and each entry made carries the due time the store holds; when
\* it fails (or the first read fails) no job is scheduled.
NothingArmedBeforeSave == boot.pc = "save" => scheduledJobs = <<>> /\ timers = {}

EntriesHoldStoredDueTime(sj, tm, st) ==
  /\ \A i \in 1..Len(sj) : Row(st, sj[i].id).nextRunAt = sj[i].nextRunAt
  /\ \A t \in tm : Row(st, t.id).nextRunAt = t.due

StartupPersistsFirst ==
  boot.pc # "running" =>
    /\ (boot.pc = "getMany" /\ LackDueTime(store) # {}) =>
         scheduledJobs' = <<>> /\ timers' = {}
    /\ EntriesHoldStoredDueTime(scheduledJobs', timers', store')
    /\ scheduledJobs' # <<>> => LackDueTime(store') = {}
    /\ faults' > faults => scheduledJobs' = <<>> /\ timers' = {}

C31_PersistBeforeScheduling == []NothingArmedBeforeSave /\ [][StartupPersistsFirst]_vars

\* The batch save has just succeeded: both jobs that lacked a due time are scheduled
\* with the due time the store now holds.
C31_Witness ==
  /\ boot.pc = "running"
  /\ Cardinality(Emitted(out, "scheduled")) = 2
  /\ \A i \in Emitted(out, "scheduled") :
       /\ store[out[i].id].nextRunAt = out[i].at
       /\ \E t \in timers : t.id = out[i].id /\ t.due = out[i].at

\* C32: every persisted job has status Active or Paused in every reachable state,
\* whatever create, update, pause and resume requests, dispatches that succeed or fail,
\* the start and the shutdown have done.
C32_OnlyActiveOrPaused == \A id \in DOMAIN store : store[id].status \in {ACTIVE, PAUSED}

\* A dispatch of a job that was paused meanwhile has just persisted its failure, after
\* the shutdown.
C32_Witness ==
  /\ boot.pc = "destroyed"
  /\ requests > 0
  /\ \E i \in Emitted(out, "failure") :
       Row(store, out[i].id).status = PAUSED /\ Row(store, out[i].id).failureCount = 1

\* C33: an Active job with a parsable schedule that nothing from outside pauses, deletes
\* or unschedules is, from the end of the start on and while no store call has failed,
\* always in the Due-Time Index, in the Execution Guard or queued in a running sweep
\* pass; and whenever no attempt for it is in flight and it is queued or its due time is
\* within the clock's range, an attempt for it eventually begins (or a store call fails).
Queued(id) ==
  \E p \in passes : \E k \in (p.i + 1)..Len(p.jobs) : p.jobs[k].id = id

Held(id) == HasEntry(scheduledJobs, id) \/ id \in executingJobs \/ Queued(id)

DueInRange(id) ==
  HasEntry(scheduledJobs, id) /\ EntryOf(scheduledJobs, id).nextRunAt <= MaxNow

Waiting(id) ==
  /\ boot.pc = "running"
  /\ faults = 0
  /\ InFlight(attempts, id) = {}
  /\ DueInRange(id) \/ Queued(id)

C33_DispatchedAgainAndAgain ==
  /\ []((boot.pc = "running" /\ faults = 0) => Held(1))
  /\ Waiting(1) ~> (InFlight(attempts, 1) # {} \/ faults > 0)

\* The job has been executed for two of its occurrences: the executor failed the first,
\* the job was retried after the backoff and has just succeeded; no store call failed.
C33_Witness ==
  /\ faults = 0
  /\ Cardinality(RanFor(ranOcc, 1)) = 2
  /\ Row(store, 1).failureCount = 1
  /\ Row(store, 1).lastError = NullText
  /\ Emitted(out, "success") # {}

\* C34: the sweep removes (and then dispatches) an index entry only if the entry's due
\* time has elapsed at the moment of the removal: an entry that the job's own attempt
\* made for a new, future due time while the sweep awaited the store is left alone.
\* With no requests, an entry that is unscheduled and not scheduled again in the same
\* step is one the sweep removed.
SweepRemovesOnlyElapsed ==
  \A i \in Emitted(out', "unscheduled") :
    (\A j \in Emitted(out', "scheduled") : j < i \/ out'[j].id # out'[i].id)
      => out'[i].at <= now

C34_SweepRemovesOnlyElapsed == [][SweepRemovesOnlyElapsed]_vars

\* C35: an update that is rejected because its new schedule does not parse changes
\* nothing: a job that had an index entry still has it, with the same due time and
\* timer, and the job's row (its schedule among the rest) is as it was.
RejectedUpdateChangesNothing ==
  \A i \in Emitted(out', "updateRejected") :
    /\ Row(store', out'[i].id) = Row(store, out'[i].id)
    /\ HasEntry(scheduledJobs, out'[i].id) =>
         /\ HasEntry(scheduledJobs', out'[i].id)
         /\ EntryOf(scheduledJobs', out'[i].id) = EntryOf(scheduledJobs, out'[i].id)
         /\ timers' = timers

C35_RejectedUpdateChangesNothing == [][RejectedUpdateChangesNothing]_vars

\* C36: a job that remove(id) has deleted stays deleted.  The jobs table starts with the
\* job and nothing creates jobs, so a missing row is one that remove has deleted: from
\* then on no step of the Dispatcher, of a timer or of the sweep (a step that is not a
\* request's) writes the row again, schedules the identity or starts an attempt for it,
\* also when an attempt for it was in flight at the time of the removal.
StaysDeleted ==
  \A id \in GuardIds :
    (id \notin DOMAIN store /\ calls' = calls) =>
      /\ id \notin DOMAIN store'
      /\ \A i \in Emitted(out', "scheduled") : out'[i].id # id
      /\ \A b \in InFlight(attempts', id) :
           b.pc = "findOne" => b \in InFlight(attempts, id)

C36_RemovedStaysRemoved == [][StaysDeleted]_vars

====
